---- MODULE Spec2Model ----
(***************************************************************************)
(* Model of the TurtleBot telemetry exporter (exporter.py): configuration  *)
(* of the RabbitMQ connection, node start-up, the two latest-value slots   *)
(* written by the subscription callbacks, and the 5 s timer callback that  *)
(* normalises the battery reading and publishes one record per tick.       *)
(*                                                                         *)
(* Numbers.  Python floats are modelled as exact fixed-point integers:     *)
(*   percentage / ratio          unit 1e-4   (0.4 -> 4000, 55 -> 550000)   *)
(*   BATTERY_SPEC_WH             unit 1e-2   (19.98 -> 1998)               *)
(*   wh = ratio * spec_wh        unit 1e-6                                 *)
(*   round(wh, 3)                unit 1e-3                                 *)
(*   voltage                     unit 1e-1 V                               *)
(*   pose x, y                   unit 1e-1 m                               *)
(* Binary rounding error of float arithmetic is not represented.           *)
(*                                                                         *)
(* Optional values (Python None) are sequences of length at most one.      *)
(***************************************************************************)
EXTENDS Integers, Sequences, FiniteSets, TLC

None == <<>>

Some(v) == <<v>>

\* Python truthiness of an optional string: None and "" are falsy.
TruthyStr(o) == o # None /\ o[1] # ""

\* Python truthiness of an optional int: None and 0 are falsy.
TruthyInt(o) == o # None /\ o[1] # 0

----------------------------------------------------------------------------
(* Configuration: required / build_rmq_params                              *)

\* str.lower() on the strings that occur in the model.
Lower(s) ==
    CASE s = "Broker.Lab" -> "broker.lab"
      [] s = "Burger01"   -> "burger01"
      [] s = "TB3-Host"   -> "tb3-host"
      [] OTHER            -> s

\* The slice path[1:] on the paths that occur in the model.
DropFirstChar(s) ==
    CASE s = "/"       -> ""
      [] s = "/robots" -> "robots"
      [] s = "//"      -> "/"
      [] OTHER         -> s

\* int(str) on the strings that occur in the model; ok = FALSE is ValueError.
IntOf(s) ==
    CASE s = "30672" -> [ok |-> TRUE,  num |-> 30672]
      [] s = "5672"  -> [ok |-> TRUE,  num |-> 5672]
      [] OTHER       -> [ok |-> FALSE, num |-> 0]

\* float(str) in units of 1e-2 on the strings that occur in the model.
FloatOf(s) ==
    CASE s = "19.98" -> 1998
      [] s = "20.0"  -> 2000
      [] OTHER       -> 0

Returned(s, n) == [raised |-> FALSE, exc |-> "", arg |-> "", str |-> s, num |-> n]

Raised(exc, arg) == [raised |-> TRUE, exc |-> exc, arg |-> arg, str |-> "", num |-> 0]

\* Variant of required: an unset variable reads as "" and nothing is raised.
requiredLenient(e, name) ==
    Returned(IF e[name] = None THEN "" ELSE e[name][1], 0)

\* required(name): the value of the variable, RuntimeError when unset or "".
required(e, name) ==
    LET val == e[name]
    IN  IF ~TruthyStr(val) THEN Raised("RuntimeError", name)
        ELSE Returned(val[1], 0)

\* int(required(name)): required's error first, then int's ValueError.
int_required(e, name) ==
    LET r == required(e, name)
    IN  IF r.raised THEN r
        ELSE IF IntOf(r.str).ok THEN Returned("", IntOf(r.str).num)
        ELSE Raised("ValueError", name)

\* urlparse(uri): the attributes build_rmq_params reads.  A URI is written
\* as [username, password, host, port, path]; hostname comes back lowercased.
urlparse(u) ==
    [username |-> u.username,
     password |-> u.password,
     hostname |-> IF u.host = None THEN None ELSE Some(Lower(u.host[1])),
     port     |-> u.port,
     path     |-> u.path]

RmqParams(host, port, user, pw, vhost) ==
    [raised |-> FALSE, exc |-> "", arg |-> "",
     host |-> host, port |-> port, user |-> user, pw |-> pw, vhost |-> vhost]

RmqError(r) ==
    [raised |-> TRUE, exc |-> r.exc, arg |-> r.arg,
     host |-> "", port |-> 0, user |-> "", pw |-> "", vhost |-> ""]

\* The URI value is given: os.getenv returned a non-empty string.
UriGiven(e) == e.RABBITMQ_URI # None /\ ~e.RABBITMQ_URI[1].empty

\* vhost taken from the URI path (line 27).
UriVhost(p) == IF p.path # "" /\ p.path # "/" THEN DropFirstChar(p.path) ELSE "/"

\* os.getenv("RABBITMQ_VHOST", "/") (line 33).
EnvVhost(e) == IF e.RABBITMQ_VHOST = None THEN "/" ELSE e.RABBITMQ_VHOST[1]

build_rmq_params(e) ==
    IF UriGiven(e) THEN
        LET p    == urlparse(e.RABBITMQ_URI[1])
            user == IF TruthyStr(p.username) THEN Returned(p.username[1], 0)
                    ELSE required(e, "RABBITMQ_USER")
            pw   == IF TruthyStr(p.password) THEN Returned(p.password[1], 0)
                    ELSE required(e, "RABBITMQ_PASS")
            host == IF TruthyStr(p.hostname) THEN Returned(p.hostname[1], 0)
                    ELSE required(e, "RABBITMQ_HOST")
            port == IF TruthyInt(p.port) THEN Returned("", p.port[1])
                    ELSE int_required(e, "RABBITMQ_PORT")
        IN  IF user.raised THEN RmqError(user)
            ELSE IF pw.raised THEN RmqError(pw)
            ELSE IF host.raised THEN RmqError(host)
            ELSE IF port.raised THEN RmqError(port)
            ELSE RmqParams(host.str, port.num, user.str, pw.str, UriVhost(p))
    ELSE
        LET host == required(e, "RABBITMQ_HOST")
            port == int_required(e, "RABBITMQ_PORT")
            user == required(e, "RABBITMQ_USER")
            pw   == required(e, "RABBITMQ_PASS")
        IN  IF host.raised THEN RmqError(host)
            ELSE IF port.raised THEN RmqError(port)
            ELSE IF user.raised THEN RmqError(user)
            ELSE IF pw.raised THEN RmqError(pw)
            ELSE RmqParams(host.str, port.num, user.str, pw.str, EnvVhost(e))

----------------------------------------------------------------------------
(* Bounds and input domains                                                *)

\* Most samples either source delivers in one execution.
MaxStream == 2

\* The counters ticks and publish_calls count up to MaxTicks and then stay;
\* the execution itself goes on.
MaxTicks == 3

\* 1.0 in the unit of raw percentages (1e-4).
PctOne == 10000

\* BatteryState samples: percentage (None = field absent / falsy), voltage.
BatterySamples ==
    { [percentage |-> Some(4000),    voltage |-> 118],    \* 0.4
      [percentage |-> Some(550000),  voltage |-> 121],    \* 55
      [percentage |-> Some(10000),   voltage |-> 124],    \* 1.0
      [percentage |-> Some(1234),    voltage |-> 110],    \* 0.1234
      [percentage |-> Some(1500000), voltage |-> 126],    \* 150
      [percentage |-> Some(0),       voltage |-> 101],    \* 0.0
      [percentage |-> None,          voltage |-> 105] }

\* PoseWithCovarianceStamped samples: pose.pose.position.
PoseSamples ==
    { [x |-> 10, y |-> -25], [x |-> -7, y |-> 32] }

\* Exceptions basic_publish can raise (pika.exceptions), all Exception subclasses.
PublishErrors == {"AMQPConnectionError", "ChannelWrongStateError"}

\* socket.gethostname()
Hostname == "TB3-Host"

Unset ==
    [RABBITMQ_URI |-> None, RABBITMQ_HOST |-> None, RABBITMQ_PORT |-> None,
     RABBITMQ_USER |-> None, RABBITMQ_PASS |-> None, RABBITMQ_VHOST |-> None,
     ROBOT_NAME |-> None, BATTERY_SPEC_WH |-> None]

\* The settings of run_exporter.py: discrete fields, no URI, no vhost.
RunExporterEnv ==
    [Unset EXCEPT !.RABBITMQ_HOST = Some("Broker.Lab"), !.RABBITMQ_PORT = Some("30672"),
                  !.RABBITMQ_USER = Some("rabbit"), !.RABBITMQ_PASS = Some("secret"),
                  !.ROBOT_NAME = Some("Burger01")]

FullUri ==
    [empty |-> FALSE, username |-> Some("uri-user"), password |-> Some("uri-pass"),
     host |-> Some("Broker.Lab"), port |-> Some(5671), path |-> "/robots"]

RequiredNames == {"RABBITMQ_HOST", "RABBITMQ_PORT", "RABBITMQ_USER", "RABBITMQ_PASS"}

\* run_exporter.py with one required setting unset or empty.
MissingEnvs ==
    { [RunExporterEnv EXCEPT ![n] = v] : n \in RequiredNames, v \in {None, Some("")} }

\* Environments of the executions explored by Spec.
MainEnvs ==
    MissingEnvs \cup
    { RunExporterEnv,
      [RunExporterEnv EXCEPT !.RABBITMQ_PORT = Some("amqp")],
      [Unset EXCEPT !.RABBITMQ_URI = Some(FullUri), !.BATTERY_SPEC_WH = Some("20.0")],
      [Unset EXCEPT !.RABBITMQ_URI = Some([FullUri EXCEPT !.password = None])] }

----------------------------------------------------------------------------
(* State                                                                   *)

VARIABLES
    env,               \* os.environ, read at start-up
    phase,             \* position of main(): boot, configured, connected,
                       \*   spinning, fatal, exiting, down
    params,            \* result of build_rmq_params(), None before the call
    connection,        \* node.connection: "none", "open", "closed"
    queue_declared,    \* queue_declare(turtlebot.telemetry, durable) was made
    bot,               \* self.bot
    spec_wh,           \* self.spec_wh
    subscribed,        \* both create_subscription calls were made
    timer,             \* create_timer was made
    last_battery_msg,  \* self.last_battery_msg
    last_pose_msg,     \* self.last_pose_msg
    battery_stream,    \* history: samples delivered on /battery_state
    pose_stream,       \* history: samples delivered on /amcl_pose
    pc,                \* position inside publish_telemetry_callback
    frame,             \* locals of the running publish_telemetry_callback
    data,              \* the record passed to basic_publish, None otherwise
    log,               \* logger records emitted by the last step
    exc,               \* exception that left the last step uncaught, or None
    call,              \* arguments of the basic_publish in progress, or None
    queues,            \* queues declared on the channel
    ticks,             \* history: timer callbacks started
    publish_calls,     \* history: basic_publish calls made
    attempts,          \* history: basic_publish calls made by the current tick
    close_calls        \* history: connection.close() calls made

vars == <<env, phase, params, connection, queue_declared, bot, spec_wh,
          subscribed, timer, last_battery_msg, last_pose_msg, battery_stream,
          pose_stream, pc, frame, data, log, exc, call, queues, ticks,
          publish_calls, attempts, close_calls>>

node_vars == <<connection, queue_declared, bot, spec_wh, subscribed, timer>>

cache_vars == <<last_battery_msg, last_pose_msg, battery_stream, pose_stream>>

tick_vars == <<pc, frame, data>>

broker_vars == <<call, queues>>

obs_vars == <<ticks, publish_calls, attempts, close_calls>>

\* A history counter advanced by one, up to MaxTicks.
Count(n) == IF n < MaxTicks THEN n + 1 ELSE n

\* Values of the callback's locals: a number, the placeholder "N/A", or unbound.
Num(v) == [kind |-> "num", v |-> v]

NA == [kind |-> "N/A", v |-> 0]

Unbound == [kind |-> "unbound", v |-> 0]

NoFrame ==
    [has_batt |-> FALSE, has_pose |-> FALSE, raw_pct |-> Unbound, ratio |-> Unbound,
     pct_disp |-> Unbound, wh |-> Unbound, volt |-> Unbound,
     x_pos |-> Unbound, y_pos |-> Unbound]

LogRec(level, text) == [level |-> level, text |-> text]

InitWith(envs) ==
    /\ env \in envs
    /\ phase = "boot"
    /\ params = None
    /\ connection = "none"
    /\ queue_declared = FALSE
    /\ bot = ""
    /\ spec_wh = 0
    /\ subscribed = FALSE
    /\ timer = FALSE
    /\ last_battery_msg = None
    /\ last_pose_msg = None
    /\ battery_stream = <<>>
    /\ pose_stream = <<>>
    /\ pc = "idle"
    /\ frame = NoFrame
    /\ data = None
    /\ log = <<>>
    /\ exc = None
    /\ call = None
    /\ queues = {}
    /\ ticks = 0
    /\ publish_calls = 0
    /\ attempts = 0
    /\ close_calls = 0

Init == InitWith(MainEnvs)

----------------------------------------------------------------------------
(* Start-up: main() and ExporterNode.__init__                              *)

\* Line 45: build_rmq_params(); a raised error leaves __init__ and main.
StartupBuildParams ==
    /\ phase = "boot"
    /\ LET r == build_rmq_params(env)
       IN  /\ params' = Some(r)
           /\ IF r.raised
                 THEN /\ phase' = "fatal"
                      /\ exc' = Some(r.exc)
                      /\ log' = <<>>
                 ELSE /\ phase' = "configured"
                      /\ exc' = None
                      /\ log' = <<LogRec("info", "[RabbitMQ] host port user vhost")>>
    /\ UNCHANGED <<env, node_vars, cache_vars, tick_vars, broker_vars, obs_vars>>

\* Line 52: queue_declare(queue="turtlebot.telemetry", durable=True)
DeclaredQueue == [queue |-> "turtlebot.telemetry", durable |-> TRUE]

\* Variant of StartupConnect: the queue is declared without durable=True.
StartupConnectTransient ==
    /\ phase = "configured"
    /\ connection' = "open"
    /\ queue_declared' = TRUE
    /\ queues' = queues \cup {[queue |-> "turtlebot.telemetry", durable |-> FALSE]}
    /\ phase' = "connected"
    /\ log' = <<LogRec("info", "RabbitMQ connected")>>
    /\ UNCHANGED <<env, params, bot, spec_wh, subscribed, timer, cache_vars,
                   tick_vars, exc, call, obs_vars>>

\* Lines 50-53: the connection is opened and the queue declared durable.
StartupConnect ==
    /\ phase = "configured"
    /\ connection' = "open"
    /\ queue_declared' = TRUE
    /\ queues' = queues \cup {DeclaredQueue}
    /\ phase' = "connected"
    /\ log' = <<LogRec("info", "RabbitMQ connected")>>
    /\ UNCHANGED <<env, params, bot, spec_wh, subscribed, timer, cache_vars,
                   tick_vars, exc, call, obs_vars>>

\* Line 50: BlockingConnection raises after its connection attempts.
StartupConnectFail ==
    /\ phase = "configured"
    /\ phase' = "fatal"
    /\ exc' = Some("AMQPConnectionError")
    /\ log' = <<>>
    /\ UNCHANGED <<env, params, node_vars, cache_vars, tick_vars, broker_vars,
                   obs_vars>>

\* Variant of RobotName: the name is taken as written.
RobotNameVerbatim(e) ==
    IF TruthyStr(e.ROBOT_NAME) THEN e.ROBOT_NAME[1] ELSE Hostname

\* Line 55: (os.getenv("ROBOT_NAME") or socket.gethostname()).lower()
RobotName(e) ==
    Lower(IF TruthyStr(e.ROBOT_NAME) THEN e.ROBOT_NAME[1] ELSE Hostname)

\* Line 58: float(os.getenv("BATTERY_SPEC_WH", "19.98"))
SpecWh(e) ==
    FloatOf(IF e.BATTERY_SPEC_WH = None THEN "19.98" ELSE e.BATTERY_SPEC_WH[1])

\* Lines 55-78 and 142: identity, capacity, empty slots, the two
\* subscriptions, the timer; main() then spins the node.
StartupNode ==
    /\ phase = "connected"
    /\ bot' = RobotName(env)
    /\ spec_wh' = SpecWh(env)
    /\ last_battery_msg' = None
    /\ last_pose_msg' = None
    /\ subscribed' = TRUE
    /\ timer' = TRUE
    /\ phase' = "spinning"
    /\ log' = <<LogRec("info", "ROBOT_NAME")>>
    /\ UNCHANGED <<env, params, connection, queue_declared, battery_stream,
                   pose_stream, tick_vars, exc, broker_vars, obs_vars>>

----------------------------------------------------------------------------
(* Subscription callbacks                                                  *)

\* Variant of ExecutorFree: callbacks of the node may run concurrently.
ExecutorReentrant == TRUE

\* rclpy.spin(node) runs the node on a single-threaded executor: a callback
\* is taken only when no other callback of the node is running.
ExecutorFree == pc = "idle"

\* Variant of StoreLatest: a filled slot keeps its first message.
StoreFirst(slot, msg) == IF slot = None THEN Some(msg) ELSE slot

\* Lines 81 and 84: the slot is overwritten with the arriving message.
StoreLatest(slot, msg) == Some(msg)

battery_callback(msg) ==
    /\ phase = "spinning"
    /\ subscribed
    /\ ExecutorFree
    /\ Len(battery_stream) < MaxStream
    /\ battery_stream' = Append(battery_stream, msg)
    /\ last_battery_msg' = StoreLatest(last_battery_msg, msg)
    /\ log' = <<>>
    /\ UNCHANGED <<env, phase, params, node_vars, last_pose_msg, pose_stream,
                   tick_vars, exc, broker_vars, obs_vars>>

pose_callback(msg) ==
    /\ phase = "spinning"
    /\ subscribed
    /\ ExecutorFree
    /\ Len(pose_stream) < MaxStream
    /\ pose_stream' = Append(pose_stream, msg)
    /\ last_pose_msg' = StoreLatest(last_pose_msg, msg)
    /\ log' = <<>>
    /\ UNCHANGED <<env, phase, params, node_vars, last_battery_msg,
                   battery_stream, tick_vars, exc, broker_vars, obs_vars>>

----------------------------------------------------------------------------
(* publish_telemetry_callback                                              *)

\* Line 91: percentage or 0.0
RawPct(msg) ==
    IF msg.percentage = None \/ msg.percentage[1] = 0 THEN 0 ELSE msg.percentage[1]

\* Line 92: raw_pct/100.0 if raw_pct > 1.0 else raw_pct
Ratio(raw_pct) == IF raw_pct > PctOne THEN raw_pct \div 100 ELSE raw_pct

\* Variant of PctDisp: the display threshold includes 1.0.
PctDispInclusive(raw_pct) == IF raw_pct >= PctOne THEN raw_pct ELSE raw_pct * 100

\* Line 93: raw_pct if raw_pct > 1.0 else raw_pct*100
PctDisp(raw_pct) == IF raw_pct > PctOne THEN raw_pct ELSE raw_pct * 100

\* Line 94: ratio * self.spec_wh
Wh(ratio, cap) == ratio * cap

\* Variant of Round3: truncation to three decimals.
Round3Truncated(w) == w \div 1000

\* Line 124: round(wh, 3), from unit 1e-6 to unit 1e-3, ties to even.
Round3(w) ==
    LET q == w \div 1000
        r == w % 1000
    IN  IF r < 500 THEN q
        ELSE IF r > 500 THEN q + 1
        ELSE IF q % 2 = 0 THEN q ELSE q + 1

\* Variant of SkipTick: the tick is skipped only when both samples are absent.
SkipTickBothAbsent(f) == ~(f.has_batt \/ f.has_pose)

\* Line 110: the tick is skipped unless both samples were present.
SkipTick(f) == ~(f.has_batt /\ f.has_pose)

\* Lines 117-127.  "ts" (time.time_ns()) is left out: no clock is modelled.
BuildData(f) ==
    [bot     |-> bot,
     type    |-> "telemetry",
     battery |-> [percentage |-> f.ratio, voltage |-> f.volt,
                  wh |-> Num(Round3(f.wh.v))],
     pose    |-> [x |-> f.x_pos, y |-> f.y_pos]]

\* Lines 130-133: exchange, routing key and delivery mode of basic_publish.
PublishArgs ==
    [exchange |-> "", routing_key |-> "turtlebot.telemetry", delivery_mode |-> 2]

\* Variant of Catches: except pika.exceptions.AMQPConnectionError
CatchesConnectionOnly(e) == e = "AMQPConnectionError"

\* Line 135: except Exception
Catches(e) == e \in {"AMQPConnectionError", "ChannelWrongStateError", "TypeError", "ValueError"}

\* Variant of TickPresence: a battery sample with a falsy percentage counts
\* as no sample.
TickPresenceFalsy ==
    /\ phase = "spinning"
    /\ timer
    /\ ExecutorFree
    /\ frame' = [NoFrame EXCEPT !.has_batt = (/\ last_battery_msg # None
                                              /\ TruthyInt(last_battery_msg[1].percentage)),
                                !.has_pose = (last_pose_msg # None)]
    /\ pc' = "batt"
    /\ data' = None
    /\ call' = None
    /\ ticks' = Count(ticks)
    /\ attempts' = 0
    /\ log' = <<>>
    /\ UNCHANGED <<env, phase, params, node_vars, cache_vars, exc, queues,
                   publish_calls, close_calls>>

\* The timer fires; lines 87-88 test the two slots.
TickPresence ==
    /\ phase = "spinning"
    /\ timer
    /\ ExecutorFree
    /\ frame' = [NoFrame EXCEPT !.has_batt = (last_battery_msg # None),
                                !.has_pose = (last_pose_msg # None)]
    /\ pc' = "batt"
    /\ data' = None
    /\ call' = None
    /\ ticks' = Count(ticks)
    /\ attempts' = 0
    /\ log' = <<>>
    /\ UNCHANGED <<env, phase, params, node_vars, cache_vars, exc, queues,
                   publish_calls, close_calls>>

\* Lines 90-94 and 96-97: percentage read and normalised, or placeholders.
TickBattery ==
    /\ phase = "spinning"
    /\ pc = "batt"
    /\ IF frame.has_batt
          THEN LET raw == RawPct(last_battery_msg[1])
               IN  /\ frame' = [frame EXCEPT !.raw_pct = Num(raw),
                                             !.ratio = Num(Ratio(raw)),
                                             !.pct_disp = Num(PctDisp(raw)),
                                             !.wh = Num(Wh(Ratio(raw), spec_wh))]
                   /\ pc' = "volt"
          ELSE /\ frame' = [frame EXCEPT !.pct_disp = NA, !.wh = NA, !.volt = NA]
               /\ pc' = "pose"
    /\ log' = <<>>
    /\ UNCHANGED <<env, phase, params, node_vars, cache_vars, data, exc,
                   broker_vars, obs_vars>>

\* Line 95: voltage read.
TickVoltage ==
    /\ phase = "spinning"
    /\ pc = "volt"
    /\ frame' = [frame EXCEPT !.volt = Num(last_battery_msg[1].voltage)]
    /\ pc' = "pose"
    /\ log' = <<>>
    /\ UNCHANGED <<env, phase, params, node_vars, cache_vars, data, exc,
                   broker_vars, obs_vars>>

\* Lines 99-103: position read, or placeholders.
TickPose ==
    /\ phase = "spinning"
    /\ pc = "pose"
    /\ IF frame.has_pose
          THEN frame' = [frame EXCEPT !.x_pos = Num(last_pose_msg[1].x),
                                      !.y_pos = Num(last_pose_msg[1].y)]
          ELSE frame' = [frame EXCEPT !.x_pos = NA, !.y_pos = NA]
    /\ pc' = "decide"
    /\ log' = <<>>
    /\ UNCHANGED <<env, phase, params, node_vars, cache_vars, data, exc,
                   broker_vars, obs_vars>>

\* Line 105: the status line with the display values.
StatusLine(f) ==
    [level |-> "info", text |-> "status", pct_disp |-> f.pct_disp, volt |-> f.volt,
     wh |-> f.wh, x_pos |-> f.x_pos, y_pos |-> f.y_pos]

\* Lines 111-114: one warning per missing sample.
Warnings(f) ==
    (IF ~f.has_batt THEN <<LogRec("warning", "No battery data yet")>> ELSE <<>>)
    \o (IF ~f.has_pose THEN <<LogRec("warning", "No pose data yet")>> ELSE <<>>)

\* Lines 105-127: status line; then either the warnings and return, or the
\* record is built and basic_publish is entered.  round() of a placeholder
\* raises TypeError outside the try block.
TickDecide ==
    /\ phase = "spinning"
    /\ pc = "decide"
    /\ IF SkipTick(frame)
          THEN /\ log' = <<StatusLine(frame)>> \o Warnings(frame)
               /\ pc' = "idle"
               /\ frame' = NoFrame
               /\ data' = None
               /\ UNCHANGED <<phase, exc, call, publish_calls, attempts>>
          ELSE IF frame.wh.kind # "num"
          THEN /\ log' = <<StatusLine(frame)>>
               /\ exc' = Some("TypeError")
               /\ phase' = "exiting"
               /\ UNCHANGED <<pc, frame, data, call, publish_calls, attempts>>
          ELSE /\ log' = <<StatusLine(frame)>>
               /\ data' = Some(BuildData(frame))
               /\ call' = Some(PublishArgs)
               /\ publish_calls' = Count(publish_calls)
               /\ attempts' = attempts + 1
               /\ pc' = "publish"
               /\ UNCHANGED <<phase, frame, exc>>
    /\ UNCHANGED <<env, params, node_vars, cache_vars, queues, ticks, close_calls>>

\* Variant of PublishReturn: a published sample is consumed, both slots are
\* emptied.
PublishReturnConsume ==
    /\ phase = "spinning"
    /\ pc = "publish"
    /\ connection = "open"
    /\ pc' = "idle"
    /\ frame' = NoFrame
    /\ data' = None
    /\ call' = None
    /\ log' = <<>>
    /\ last_battery_msg' = None
    /\ last_pose_msg' = None
    /\ UNCHANGED <<env, phase, params, node_vars, battery_stream, pose_stream,
                   exc, queues, obs_vars>>

\* Lines 130-134: basic_publish returns; the callback returns.
PublishReturn ==
    /\ phase = "spinning"
    /\ pc = "publish"
    /\ connection = "open"
    /\ pc' = "idle"
    /\ frame' = NoFrame
    /\ data' = None
    /\ call' = None
    /\ log' = <<>>
    /\ UNCHANGED <<env, phase, params, node_vars, cache_vars, exc, queues, obs_vars>>

\* Variant of PublishRaise: after logging a caught error the same record is
\* published again.
PublishRaiseRetry(e) ==
    /\ phase = "spinning"
    /\ pc = "publish"
    /\ connection' = IF e = "AMQPConnectionError" THEN "closed" ELSE connection
    /\ log' = <<LogRec("error", "RabbitMQ publish failed")>>
    /\ publish_calls' = Count(publish_calls)
    /\ attempts' = attempts + 1
    /\ UNCHANGED <<env, phase, params, queue_declared, bot, spec_wh, subscribed,
                   timer, cache_vars, tick_vars, exc, broker_vars, ticks,
                   close_calls>>

\* Variant of PublishRaise: a failed publish also empties both slots.
PublishRaiseDropCache(e) ==
    /\ phase = "spinning"
    /\ pc = "publish"
    /\ connection' = IF e = "AMQPConnectionError" THEN "closed" ELSE connection
    /\ log' = <<LogRec("error", "RabbitMQ publish failed")>>
    /\ pc' = "idle"
    /\ frame' = NoFrame
    /\ data' = None
    /\ call' = None
    /\ last_battery_msg' = None
    /\ last_pose_msg' = None
    /\ UNCHANGED <<env, phase, params, queue_declared, bot, spec_wh, subscribed,
                   timer, battery_stream, pose_stream, exc, queues, obs_vars>>

\* Lines 130-136: basic_publish raises e.  A connection error leaves the
\* connection closed.  A caught error is logged and the callback returns; an
\* uncaught one leaves the callback and rclpy.spin.
PublishRaise(e) ==
    /\ phase = "spinning"
    /\ pc = "publish"
    /\ connection' = IF e = "AMQPConnectionError" THEN "closed" ELSE connection
    /\ IF Catches(e)
          THEN /\ log' = <<LogRec("error", "RabbitMQ publish failed")>>
               /\ pc' = "idle"
               /\ frame' = NoFrame
               /\ data' = None
               /\ call' = None
               /\ UNCHANGED <<phase, exc>>
          ELSE /\ log' = <<>>
               /\ exc' = Some(e)
               /\ phase' = "exiting"
               /\ UNCHANGED <<pc, frame, data, call>>
    /\ UNCHANGED <<env, params, queue_declared, bot, spec_wh, subscribed, timer,
                   cache_vars, queues, obs_vars>>

----------------------------------------------------------------------------
(* Shutdown                                                                *)

\* Line 143: SIGINT raises KeyboardInterrupt inside rclpy.spin, at any point
\* of the spin loop or of a running callback.
Interrupt ==
    /\ phase = "spinning"
    /\ phase' = "exiting"
    /\ exc' = Some("KeyboardInterrupt")
    /\ log' = <<>>
    /\ UNCHANGED <<env, params, node_vars, cache_vars, tick_vars, broker_vars,
                   obs_vars>>

\* Variant of Shutdown: connection.close() is called without the is_closed test.
ShutdownAlwaysClose ==
    /\ phase = "exiting"
    /\ connection' = "closed"
    /\ subscribed' = FALSE
    /\ timer' = FALSE
    /\ phase' = "down"
    /\ log' = <<>>
    /\ close_calls' = close_calls + 1
    /\ UNCHANGED <<env, params, queue_declared, bot, spec_wh, cache_vars,
                   tick_vars, exc, broker_vars, ticks, publish_calls, attempts>>

\* Lines 143-149: the interrupt is logged; the connection is closed if it
\* is still open; the node is destroyed.
Shutdown ==
    /\ phase = "exiting"
    /\ connection' = IF connection = "open" THEN "closed" ELSE connection
    /\ subscribed' = FALSE
    /\ timer' = FALSE
    /\ phase' = "down"
    /\ log' = IF exc = Some("KeyboardInterrupt")
                 THEN <<LogRec("info", "Interrupted, shutting down.")>>
                 ELSE <<>>
    /\ close_calls' = IF connection = "open" THEN close_calls + 1 ELSE close_calls
    /\ UNCHANGED <<env, params, queue_declared, bot, spec_wh, cache_vars,
                   tick_vars, exc, broker_vars, ticks, publish_calls, attempts>>

----------------------------------------------------------------------------
(* Specifications                                                          *)

Next ==
    \/ StartupBuildParams
    \/ StartupConnect
    \/ StartupConnectFail
    \/ StartupNode
    \/ \E msg \in BatterySamples : battery_callback(msg)
    \/ \E msg \in PoseSamples : pose_callback(msg)
    \/ TickPresence
    \/ TickBattery
    \/ TickVoltage
    \/ TickPose
    \/ TickDecide
    \/ PublishReturn
    \/ \E e \in PublishErrors : PublishRaise(e)
    \/ Interrupt
    \/ Shutdown

Spec == Init /\ [][Next]_vars

\* Start-up alone, over a wider set of environments, for build_rmq_params.
UriValues ==
    { [empty |-> FALSE, username |-> u, password |-> w, host |-> h, port |-> n, path |-> t] :
        u \in {None, Some("uri-user")}, w \in {None, Some("uri-pass")},
        h \in {None, Some("Broker.Lab")}, n \in {None, Some(5671)},
        t \in {"", "/", "/robots"} }
    \cup { [FullUri EXCEPT !.empty = TRUE] }

ParamEnvs ==
    { [Unset EXCEPT !.RABBITMQ_URI = u, !.RABBITMQ_HOST = h, !.RABBITMQ_PORT = n,
                    !.RABBITMQ_USER = us, !.RABBITMQ_PASS = pw, !.RABBITMQ_VHOST = vh] :
        u \in {None} \cup {Some(v) : v \in UriValues},
        h \in {None, Some(""), Some("rmq.local")},
        n \in {None, Some("30672"), Some("amqp")},
        us \in {None, Some("rabbit")},
        pw \in {None, Some("secret")},
        vh \in {None, Some("tb")} }

InitParams == InitWith(ParamEnvs)

SpecParams == InitParams /\ [][StartupBuildParams]_vars

\* The timer fires whenever the executor stays free, and the code of a
\* started callback runs on.  basic_publish on a closed connection raises at
\* once; on an open connection it is network I/O and may not return.
FairSpec ==
    /\ Spec
    /\ WF_vars(TickPresence)
    /\ WF_vars(TickBattery)
    /\ WF_vars(TickVoltage)
    /\ WF_vars(TickPose)
    /\ WF_vars(TickDecide)
    /\ WF_vars(connection = "closed" /\ \E e \in PublishErrors : PublishRaise(e))

----------------------------------------------------------------------------
(* Properties                                                              *)

Last(seq) == seq[Len(seq)]

Range(seq) == { seq[i] : i \in DOMAIN seq }

CountOf(seq, rec) == Cardinality({ i \in DOMAIN seq : seq[i] = rec })

\* The last step was the decision of a tick: it emitted the status line.
TickDecided == log # <<>> /\ log[1].text = "status"

AllNumbers(d) ==
    /\ d.battery.percentage.kind = "num"
    /\ d.battery.voltage.kind = "num"
    /\ d.battery.wh.kind = "num"
    /\ d.pose.x.kind = "num"
    /\ d.pose.y.kind = "num"

\* C1: a record is built and passed to basic_publish only while both slots
\* hold a sample; a tick that decides emits exactly one warning for each
\* absent slot (0, 1 or 2 in all); no record passed to basic_publish has the
\* placeholder "N/A" in any field.
C1_NoSnapshotWhileAbsent ==
    /\ (data # None \/ pc = "publish") =>
          /\ last_battery_msg # None
          /\ last_pose_msg # None
    /\ TickDecided =>
          /\ CountOf(log, LogRec("warning", "No battery data yet"))
                = IF last_battery_msg = None THEN 1 ELSE 0
          /\ CountOf(log, LogRec("warning", "No pose data yet"))
                = IF last_pose_msg = None THEN 1 ELSE 0
          /\ Len(log) = 1 + (IF last_battery_msg = None THEN 1 ELSE 0)
                          + (IF last_pose_msg = None THEN 1 ELSE 0)
          /\ (last_battery_msg = None \/ last_pose_msg = None) =>
                (data = None /\ pc = "idle")
    /\ data # None => AllNumbers(data[1])

\* C1 witness: pose present, power absent, the tick was skipped with the
\* one warning for power.
C1_Witness ==
    /\ TickDecided
    /\ last_battery_msg = None
    /\ last_pose_msg # None
    /\ log[2] = LogRec("warning", "No battery data yet")
    /\ data = None

\* C2: an error raised by basic_publish never leaves the callback and the
\* spin loop: the error is logged, the callback has returned, the node keeps spinning with
\* its timer, and the next tick can start.
C2_PublishFailureContained ==
    /\ (phase \in {"exiting", "down"} /\ exc # None) => exc[1] \notin PublishErrors
    /\ log = <<LogRec("error", "RabbitMQ publish failed")>> =>
          /\ pc = "idle"
          /\ phase = "spinning"
          /\ timer
          /\ exc = None
          /\ ENABLED TickPresence

\* C2 witness: a publish has just failed with both slots present.
C2_Witness ==
    /\ log = <<LogRec("error", "RabbitMQ publish failed")>>
    /\ last_battery_msg # None
    /\ last_pose_msg # None
    /\ phase = "spinning"

\* C3: for the raw percentage p of the sample read by a tick: p <= 1.0 gives
\* ratio = p and display = p*100; p > 1.0 gives ratio = p/100 and display =
\* p; hence display = ratio*100, also between the logged status line and the
\* record built in the same tick.  With capacity 20.0, p = 0.4 gives ratio
\* 0.4, display 40.0 and wh 8.0.
C3_Normalisation ==
    /\ frame.raw_pct.kind = "num" =>
          LET p == frame.raw_pct.v
              r == frame.ratio.v
              d == frame.pct_disp.v
          IN  /\ frame.ratio.kind = "num" /\ frame.pct_disp.kind = "num"
              /\ p <= PctOne => (r = p /\ d = p * 100)
              /\ p > PctOne => (r * 100 = p /\ d = p)
              /\ d = r * 100
              /\ (p = 4000 /\ env.BATTERY_SPEC_WH = Some("20.0")) =>
                    (r = 4000 /\ d = 400000 /\ frame.wh = Num(8000000))
    /\ (TickDecided /\ data # None) =>
          /\ log[1].pct_disp.kind = "num"
          /\ log[1].pct_disp.v = data[1].battery.percentage.v * 100

\* C3 witness: a record built from a raw percentage above 1.0.
C3_Witness ==
    /\ TickDecided
    /\ data # None
    /\ frame.raw_pct = Num(550000)
    /\ data[1].battery.percentage = Num(5500)

\* C4: the ratio of every record passed to basic_publish lies in [0, 1].
C4_RatioInUnitInterval ==
    data # None =>
        /\ data[1].battery.percentage.kind = "num"
        /\ 0 <= data[1].battery.percentage.v
        /\ data[1].battery.percentage.v <= PctOne

\* C5: once a tick has entered basic_publish, the next tick is eventually
\* started (unless the process is shut down), whether or not the call
\* returns.
C5_NextTickDelivered ==
    (pc = "publish" /\ phase = "spinning") ~> (pc = "batt" \/ phase # "spinning")

\* C6: the percentage and the voltage a tick has read, and those of every
\* record passed to basic_publish, come from one and the same delivered
\* battery sample, and x and y from one and the same delivered pose sample.
C6_OneSamplePerSnapshot ==
    /\ (frame.raw_pct.kind = "num" /\ frame.volt.kind = "num") =>
          \E b \in Range(battery_stream) :
              /\ frame.raw_pct.v = (IF b.percentage = None THEN 0 ELSE b.percentage[1])
              /\ frame.volt.v = b.voltage
    /\ frame.x_pos.kind = "num" =>
          \E q \in Range(pose_stream) :
              frame.x_pos.v = q.x /\ frame.y_pos = Num(q.y)
    /\ data # None =>
          /\ \E b \in Range(battery_stream) :
                /\ frame.raw_pct.v = (IF b.percentage = None THEN 0 ELSE b.percentage[1])
                /\ data[1].battery.voltage = Num(b.voltage)
          /\ \E q \in Range(pose_stream) :
                data[1].pose = [x |-> Num(q.x), y |-> Num(q.y)]

\* C6 witness: a record is in basic_publish after the battery slot was
\* overwritten with a different sample between two ticks.
C6_Witness ==
    /\ pc = "publish"
    /\ data # None
    /\ Len(battery_stream) = 2
    /\ battery_stream[1] # battery_stream[2]

\* C7: each slot holds the most recently delivered sample of its stream,
\* and a tick builds its record from these: voltage, x and y are those of
\* the last delivered samples, and the ratio is the last delivered
\* percentage, normalised.
C7_LastWriteWins ==
    /\ last_battery_msg =
          (IF battery_stream = <<>> THEN None ELSE Some(Last(battery_stream)))
    /\ last_pose_msg = (IF pose_stream = <<>> THEN None ELSE Some(Last(pose_stream)))
    /\ data # None =>
          /\ battery_stream # <<>> /\ pose_stream # <<>>
          /\ data[1].battery.voltage = Num(Last(battery_stream).voltage)
          /\ data[1].pose.x = Num(Last(pose_stream).x)
          /\ data[1].pose.y = Num(Last(pose_stream).y)
          /\ LET p == IF Last(battery_stream).percentage = None THEN 0
                      ELSE Last(battery_stream).percentage[1]
                 r == data[1].battery.percentage.v
             IN  IF p > PctOne THEN r * 100 = p ELSE r = p

\* C7 witness: a record built after both slots were overwritten with
\* samples that differ from the first ones.
C7_Witness ==
    /\ data # None
    /\ Len(battery_stream) = 2
    /\ Len(pose_stream) = 2
    /\ battery_stream[1].voltage # battery_stream[2].voltage
    /\ pose_stream[1] # pose_stream[2]

\* C8: the wh field of every record passed to basic_publish is the product
\* of the record's ratio and the configured capacity, rounded to three
\* decimals: a multiple of 0.001 at most 0.0005 away from the product.  With
\* capacity 20.0, raw percentage 55 gives ratio 0.55 and wh 11.0.
C8_WhRounded ==
    data # None =>
        LET r     == data[1].battery.percentage.v
            w     == data[1].battery.wh.v
            cap   == IF env.BATTERY_SPEC_WH = Some("20.0") THEN 2000 ELSE 1998
            exact == r * cap
        IN  /\ data[1].battery.wh.kind = "num"
            /\ w * 1000 - exact <= 500
            /\ exact - w * 1000 <= 500
            /\ (frame.raw_pct = Num(550000) /\ cap = 2000) => (r = 5500 /\ w = 11000)

\* C8 witness: a record whose product has more than three decimals
\* (0.1234 * 19.98 = 2.465532, sent as 2.466).
C8_Witness ==
    /\ data # None
    /\ data[1].battery.percentage = Num(1234)
    /\ spec_wh = 1998
    /\ data[1].battery.wh = Num(2466)

\* C9: with a URI given and parameters built, each of user, password, host,
\* port and vhost is the URI's value when the URI carries it, and the
\* discrete setting otherwise (host names compared without case).
C9_UriFieldsWithFallback ==
    (params # None /\ ~params[1].raised /\ UriGiven(env)) =>
        LET r == params[1]
            u == env.RABBITMQ_URI[1]
        IN  /\ r.user = IF TruthyStr(u.username) THEN u.username[1]
                        ELSE env.RABBITMQ_USER[1]
            /\ r.pw = IF TruthyStr(u.password) THEN u.password[1]
                      ELSE env.RABBITMQ_PASS[1]
            /\ Lower(r.host) = IF TruthyStr(u.host) THEN Lower(u.host[1])
                               ELSE Lower(env.RABBITMQ_HOST[1])
            /\ r.port = IF TruthyInt(u.port) THEN u.port[1]
                        ELSE IntOf(env.RABBITMQ_PORT[1]).num
            /\ r.vhost = IF u.path \notin {"", "/"} THEN DropFirstChar(u.path)
                         ELSE IF env.RABBITMQ_VHOST # None THEN env.RABBITMQ_VHOST[1]
                         ELSE "/"

\* No URI is given and a required discrete setting is unset or empty.
MissingRequired(e) ==
    /\ e.RABBITMQ_URI = None \/ e.RABBITMQ_URI[1].empty
    /\ \E n \in RequiredNames : e[n] = None \/ e[n] = Some("")

\* C10: with a required connection setting missing, start-up ends in a
\* RuntimeError before the connection is opened, the queue declared, a
\* subscription or the timer created; no callback and no tick ever runs.
C10_MissingConfigIsFatal ==
    MissingRequired(env) =>
        /\ phase \in {"boot", "fatal"}
        /\ phase = "fatal" => exc = Some("RuntimeError")
        /\ connection = "none"
        /\ ~queue_declared
        /\ ~subscribed
        /\ ~timer
        /\ battery_stream = <<>> /\ pose_stream = <<>>
        /\ last_battery_msg = None /\ last_pose_msg = None
        /\ pc = "idle" /\ data = None

\* C10 witness: start-up has failed on a missing required setting.
C10_Witness ==
    /\ MissingRequired(env)
    /\ phase = "fatal"
    /\ params # None
    /\ params[1].raised

\* C11: once the node is set up, self.bot is the lowercased ROBOT_NAME
\* when it is set and the lowercased local host name when it is unset, for
\* the rest of the execution, and every record passed to basic_publish
\* carries that identifier.
C11_RobotNameFixed ==
    LET expected == IF env.ROBOT_NAME = Some("Burger01") THEN "burger01"
                    ELSE IF env.ROBOT_NAME = None THEN "tb3-host"
                    ELSE "?"
    IN  /\ phase \in {"spinning", "exiting", "down"} => bot = expected
        /\ data # None => data[1].bot = expected

\* C11 witness: records are in basic_publish with the default identifier
\* (ROBOT_NAME unset) after both slots were overwritten, i.e. not in the
\* first tick's state only.
C11_Witness ==
    /\ data # None
    /\ env.ROBOT_NAME = None
    /\ data[1].bot = "tb3-host"
    /\ Len(battery_stream) = 2

\* C12: a tick makes at most one basic_publish call, and exactly one when
\* both slots are present; the calls made never outnumber the ticks started;
\* the record of a call is built from the values read in the same tick; a
\* failed or skipped tick leaves no record behind and makes no further call.
C12_OneAttemptPerTick ==
    /\ attempts <= 1
    /\ publish_calls <= ticks
    /\ TickDecided =>
          attempts = IF last_battery_msg # None /\ last_pose_msg # None THEN 1 ELSE 0
    /\ pc = "publish" =>
          /\ attempts = 1
          /\ data # None
          /\ data[1].battery.percentage = frame.ratio
          /\ data[1].battery.voltage = frame.volt
          /\ data[1].pose = [x |-> frame.x_pos, y |-> frame.y_pos]
    /\ pc # "publish" => (data = None /\ call = None)
    /\ log = <<LogRec("error", "RabbitMQ publish failed")>> =>
          (attempts = 1 /\ pc = "idle")

\* C12 witness: the first tick was skipped and the second one failed in
\* basic_publish: two ticks, one call, nothing kept for a retry.
C12_Witness ==
    /\ log = <<LogRec("error", "RabbitMQ publish failed")>>
    /\ ticks = 2
    /\ publish_calls = 1
    /\ data = None

\* C13: a slot that holds a sample never becomes empty again, and every
\* tick that decides after both streams have delivered a sample builds a
\* record and enters basic_publish, whatever the age of the samples.
C13_NoExpiry ==
    /\ [][/\ last_battery_msg # None => last_battery_msg' # None
          /\ last_pose_msg # None => last_pose_msg' # None]_vars
    /\ []((TickDecided /\ battery_stream # <<>> /\ pose_stream # <<>>) =>
             (pc = "publish" /\ data # None /\ attempts = 1))

\* C13 witness: a second record is in basic_publish, built from the only
\* sample each stream has ever delivered.
C13_Witness ==
    /\ pc = "publish"
    /\ data # None
    /\ publish_calls = 2
    /\ Len(battery_stream) = 1
    /\ Len(pose_stream) = 1

\* C14: when the battery slot holds a sample whose percentage is absent or
\* zero and the pose slot holds a sample, the tick that decides builds a
\* record with ratio 0 and wh 0, enters basic_publish, and emits no
\* warning about missing battery data.
C14_ZeroPercentageIsData ==
    (/\ TickDecided
     /\ last_pose_msg # None
     /\ last_battery_msg # None
     /\ last_battery_msg[1].percentage \in {None, Some(0)}) =>
        /\ pc = "publish"
        /\ data # None
        /\ data[1].battery.percentage = Num(0)
        /\ data[1].battery.wh = Num(0)
        /\ data[1].battery.voltage = Num(last_battery_msg[1].voltage)
        /\ log = <<log[1]>>
        /\ log[1].pct_disp = Num(0)

\* C14 witness: a record built from a battery sample without a percentage.
C14_Witness ==
    /\ TickDecided
    /\ pc = "publish"
    /\ last_battery_msg # None
    /\ last_battery_msg[1].percentage = None
    /\ data # None
    /\ data[1].battery.percentage = Num(0)

\* C15: both slots are empty until the node spins; a slot changes only in
\* a step that delivers a sample of its own stream; no step of the timer
\* callback (skip, publish returned, publish failed) changes either slot.
C15_CacheWrittenOnlyByCallbacks ==
    /\ [](phase \in {"boot", "configured", "connected", "fatal"} =>
             (last_battery_msg = None /\ last_pose_msg = None))
    /\ [][/\ battery_stream' = battery_stream => last_battery_msg' = last_battery_msg
          /\ pose_stream' = pose_stream => last_pose_msg' = last_pose_msg
          /\ (pc # "idle" \/ pc' # "idle") =>
                UNCHANGED <<last_battery_msg, last_pose_msg>>]_vars

\* C15 witness: ticks have been skipped, have published and have failed
\* while the slots hold the only samples delivered.
C15_Witness ==
    /\ pc = "idle"
    /\ ticks = 3
    /\ publish_calls = 2
    /\ log = <<LogRec("error", "RabbitMQ publish failed")>>
    /\ last_battery_msg # None
    /\ last_pose_msg # None
    /\ Len(battery_stream) = 1
    /\ Len(pose_stream) = 1

\* C16: when main leaves the spin loop, connection.close() is called in
\* the shutdown step exactly when the connection is still open, at most
\* once in the execution, and the connection is not open afterwards; from
\* the moment the spin loop is left no step of the timer callback runs and
\* no basic_publish call is made.
C16_ShutdownClosesOnce ==
    /\ [](close_calls <= 1)
    /\ [](close_calls = 1 => phase = "down")
    /\ [](phase = "down" => (connection = "closed" /\ ~timer /\ ~subscribed))
    /\ [][(phase = "exiting" /\ phase' = "down") =>
             /\ (close_calls' = close_calls + 1) <=> (connection = "open")
             /\ (close_calls' = close_calls) <=> (connection # "open")]_vars
    /\ [][(phase = "exiting" \/ phase = "down") =>
             UNCHANGED <<pc, frame, data, call, ticks, publish_calls, attempts>>]_vars

\* C16 witness: the interrupt arrived while a record was in basic_publish;
\* the call was abandoned and the open connection closed once.
C16_Witness ==
    /\ phase = "down"
    /\ exc = Some("KeyboardInterrupt")
    /\ pc = "publish"
    /\ close_calls = 1
    /\ connection = "closed"

\* C17: every basic_publish call goes to the default exchange with routing
\* key turtlebot.telemetry and delivery mode 2 (persistent), with a record
\* of type "telemetry"; the queue turtlebot.telemetry has been declared
\* durable whenever the timer exists, a tick has started or a call is made.
C17_DurableQueuePersistentDelivery ==
    LET declared == [queue |-> "turtlebot.telemetry", durable |-> TRUE] \in queues
    IN  /\ pc = "publish" =>
              /\ call = Some([exchange |-> "", routing_key |-> "turtlebot.telemetry",
                              delivery_mode |-> 2])
              /\ data # None
              /\ data[1].type = "telemetry"
              /\ declared
        /\ call # None => pc = "publish"
        /\ (timer \/ ticks > 0 \/ publish_calls > 0) => declared
        /\ \A q \in queues : q.queue = "turtlebot.telemetry" => q.durable

\* C17 witness: the first basic_publish call of an execution is in progress.
C17_Witness ==
    /\ pc = "publish"
    /\ call # None
    /\ publish_calls = 1
    /\ ticks = 1
    /\ phase = "spinning"

====
